---- MODULE Spec2Model ----
(***************************************************************************)
(* Model of the Social Media Reply Generator (app/logic.py, app/model.py,  *)
(* app/db/database.py, app/main.py).                                       *)
(*                                                                         *)
(* Texts are sequences of tokens.  A token is a record [c, j]: c is the    *)
(* token's characters, j the JSON document the token spells when it is a   *)
(* JSON document (j.t = "none" otherwise).  str.strip, str.startswith,     *)
(* str.split and the `in` test are computed on the token sequence.         *)
(***************************************************************************)
EXTENDS Integers, Sequences, FiniteSets, TLC

VARIABLES
    stage_in,     \* input of one stage function: [stage, text, analysis]
    stage_out,    \* what the stage function returned or raised
    pc,           \* where each task stands
    req,          \* generate_reply arguments of each request
    analysis,     \* local of generate_reply
    strategy,     \* local of generate_reply
    model_text,   \* what the last generate_response call of the task returned
    result,       \* local of generate_reply / argument of store_reply
    outcome,      \* "pending", "returned", or the exception that left the task
    gw,           \* stages whose gateway call the task has made, in order
    gateway_up,   \* FALSE: every self.llm.invoke raises (no key, no network)
    loop,         \* the task that holds the event loop thread, NoTask if none
    client,       \* Database.client (0: None)
    db,           \* Database.db (0: None, else the client it belongs to)
    made,         \* number of AsyncIOMotorClient objects constructed
    open_clients, \* the constructed clients on which close() was not called
    replies,      \* documents of the replies collection
    store_ret,    \* what store_reply returned to the task
    stores        \* number of Database.store_reply calls the task has made

stage_vars == <<stage_in, stage_out>>
task_vars == <<pc, req, analysis, strategy, model_text, result, outcome, gw,
               gateway_up, loop>>
db_vars == <<client, db, made, open_clients, replies, store_ret, stores>>
vars == <<stage_in, stage_out, pc, req, analysis, strategy, model_text, result,
          outcome, gw, gateway_up, loop, client, db, made, open_clients, replies,
          store_ret, stores>>

----------------------------------------------------------------------------
(* Bounds *)

\* number of segments a reply text is assembled from
MaxParts == 3

\* number of concurrent requests
NumRequests == 2

----------------------------------------------------------------------------
(* JSON values as Python sees them after json.loads *)

AnalysisKeys == {"intent", "sentiment", "topics", "response_type"}
StrategyKeys == {"strategy_summary", "considerations"}
AllKeys == AnalysisKeys \cup StrategyKeys

\* a list item
Atom(t, s) == [t |-> t, s |-> s]

\* the value stored under a dict key; Absent: the key is not in the dict
Absent == [t |-> "absent", s |-> "", items |-> <<>>]
Str(s) == [t |-> "str", s |-> s, items |-> <<>>]
Num(s) == [t |-> "num", s |-> s, items |-> <<>>]
List(items) == [t |-> "list", s |-> "", items |-> items]

EmptyDict == [k \in AllKeys |-> Absent]

\* a parsed JSON document
Dict(d) == [t |-> "dict", d |-> d]
NonDict(t) == [t |-> t, d |-> EmptyDict]
NoJson == [t |-> "none", d |-> EmptyDict]

----------------------------------------------------------------------------
(* Tokens and texts *)

W(c) == [c |-> c, j |-> NoJson]
J(doc) == [c |-> "<json>", j |-> doc]

WS == W(" ")
X == W("x")
FENCE == <<W("<fence>")>>
FENCE_JSON == <<W("<fence>"), W("json")>>

IsSpace(tok) == tok.c = " "

\* str.strip()
RECURSIVE lstrip(_)
lstrip(s) == IF s # <<>> /\ IsSpace(Head(s)) THEN lstrip(Tail(s)) ELSE s

RECURSIVE rstrip(_)
rstrip(s) ==
    IF s # <<>> /\ IsSpace(s[Len(s)]) THEN rstrip(SubSeq(s, 1, Len(s) - 1)) ELSE s

strip(s) == rstrip(lstrip(s))

\* str.startswith(prefix)
startswith(s, prefix) ==
    Len(s) >= Len(prefix) /\ SubSeq(s, 1, Len(prefix)) = prefix

\* str.find(sep) + 1: first position of sep in s, 0 when absent
find(s, sep) ==
    LET At(i) == SubSeq(s, i, i + Len(sep) - 1) = sep
        Hits == {i \in 1..(Len(s) - Len(sep) + 1) : At(i)}
    IN  IF Hits = {} THEN 0 ELSE CHOOSE i \in Hits : \A k \in Hits : i <= k

\* sep in s
contains(s, sep) == find(s, sep) # 0

\* str.split(sep): the pieces between the non-overlapping occurrences of sep
RECURSIVE split(_, _)
split(s, sep) ==
    LET i == find(s, sep)
    IN  IF i = 0 THEN <<s>>
        ELSE <<SubSeq(s, 1, i - 1)>> \o split(SubSeq(s, i + Len(sep), Len(s)), sep)

\* json.loads: surrounding whitespace is accepted, anything but exactly one
\* JSON document raises JSONDecodeError
json_loads(s) ==
    LET body == strip(s)
    IN  IF Len(body) = 1 /\ body[1].j.t # "none"
        THEN [ok |-> TRUE, v |-> body[1].j]
        ELSE [ok |-> FALSE, v |-> NoJson]

\* the fence extraction both stages share (logic.py 44-47, 130-133)
extract_fenced(text) ==
    IF contains(text, FENCE_JSON)
    THEN strip(split(split(text, FENCE_JSON)[2], FENCE)[1])
    ELSE IF contains(text, FENCE)
    THEN strip(split(split(text, FENCE)[2], FENCE)[1])
    ELSE text

\* ', '.join(value) succeeds: value is a str, or a list whose items are all str
join_ok(leaf) ==
    \/ leaf.t = "str"
    \/ leaf.t = "list" /\ \A i \in 1..Len(leaf.items) : leaf.items[i].t = "str"

----------------------------------------------------------------------------
(* Gateway: LLMModel.generate_response *)

FALLBACK_TEXT == <<W("I couldn't generate a proper response at this time.")>>

\* variant: the except branch returns an empty string
generate_response_empty(call) ==
    IF call.ok THEN call.text ELSE <<>>

\* call.ok is false when self.llm.invoke raised; else call.text is
\* response.content
generate_response(call) ==
    IF call.ok THEN call.text ELSE FALLBACK_TEXT

----------------------------------------------------------------------------
(* Analyze stage: analyze_post *)

required_keys == <<"intent", "sentiment", "topics", "response_type">>

\* variant: the fallback record filled with the per-key default "unknown"
ANALYSIS_FALLBACK_unknown ==
    [k \in AllKeys |->
        CASE k \in {"intent", "sentiment", "response_type"} -> Str("unknown")
          [] k = "topics" -> List(<<Atom("str", "general")>>)
          [] OTHER -> Absent]

ANALYSIS_FALLBACK ==
    [k \in AllKeys |->
        CASE k = "intent" -> Str("unknown")
          [] k = "sentiment" -> Str("neutral")
          [] k = "topics" -> List(<<Atom("str", "general")>>)
          [] k = "response_type" -> Str("engagement")
          [] OTHER -> Absent]

\* variant: the `not in` test dropped, every required key overwritten
analysis_fill_overwrite(d) ==
    [k \in AllKeys |->
        IF \E i \in 1..Len(required_keys) : required_keys[i] = k
        THEN Str("unknown") ELSE d[k]]

\* logic.py 53-55: every required key that is missing becomes "unknown"
analysis_fill(d) ==
    [k \in AllKeys |->
        IF (\E i \in 1..Len(required_keys) : required_keys[i] = k) /\ d[k] = Absent
        THEN Str("unknown") ELSE d[k]]

\* logic.py 58-59: a topics value that is not a list is wrapped in a list
topics_coerce(d) ==
    [d EXCEPT !["topics"] =
        IF @.t = "list" THEN @ ELSE List(<<Atom(@.t, @.s)>>)]

\* the part of analyze_post after the gateway call; exc names what it raises
analyze_post(analysis_text) ==
    LET parsed == json_loads(extract_fenced(analysis_text))
    IN  IF ~parsed.ok
        THEN [exc |-> "none", d |-> ANALYSIS_FALLBACK]
        ELSE IF parsed.v.t # "dict"
        THEN [exc |-> "TypeError", d |-> EmptyDict]
        ELSE [exc |-> "none", d |-> topics_coerce(analysis_fill(parsed.v.d))]

----------------------------------------------------------------------------
(* Strategize stage: determine_strategy *)

STRATEGY_FALLBACK ==
    [k \in AllKeys |->
        CASE k = "strategy_summary" -> Str("Respond naturally to the post.")
          [] k = "considerations" ->
                List(<<Atom("str", "Keep it authentic"),
                       Atom("str", "Address the main points")>>)
          [] OTHER -> Absent]

\* logic.py 138-141
strategy_fill(d) ==
    [k \in AllKeys |->
        IF k \in StrategyKeys /\ d[k] = Absent THEN STRATEGY_FALLBACK[k] ELSE d[k]]

\* logic.py 88-110: the prompt joins analysis["topics"] before the try block
strategy_prompt_ok(ana) == join_ok(ana["topics"])

determine_strategy(ana, strategy_text) ==
    LET parsed == json_loads(extract_fenced(strategy_text))
    IN  IF ~strategy_prompt_ok(ana)
        THEN [exc |-> "TypeError", d |-> EmptyDict]
        ELSE IF ~parsed.ok
        THEN [exc |-> "none", d |-> STRATEGY_FALLBACK]
        ELSE IF parsed.v.t # "dict"
        THEN [exc |-> "TypeError", d |-> EmptyDict]
        ELSE [exc |-> "none", d |-> strategy_fill(parsed.v.d)]

----------------------------------------------------------------------------
(* Compose stage: generate_platform_reply *)

prefixes_to_remove ==
    << <<W("Reply:")>>,
       <<W("Here's"), WS, W("my"), WS, W("reply:")>>,
       <<W("Here"), WS, W("is"), WS, W("my"), WS, W("reply:")>>,
       <<W("Here's"), WS, W("a"), WS, W("reply:")>>,
       <<W("Here"), WS, W("is"), WS, W("a"), WS, W("reply:")>> >>

\* one iteration of the loop at logic.py 222-224
strip_prefix(reply, prefix) ==
    IF startswith(reply, prefix)
    THEN strip(SubSeq(reply, Len(prefix) + 1, Len(reply)))
    ELSE reply

\* variant: the loop leaves after the first prefix it removed
RECURSIVE strip_first_prefix_from(_, _)
strip_first_prefix_from(reply, i) ==
    IF i > Len(prefixes_to_remove) THEN reply
    ELSE IF startswith(reply, prefixes_to_remove[i])
    THEN strip_prefix(reply, prefixes_to_remove[i])
    ELSE strip_first_prefix_from(reply, i + 1)

\* the loop at logic.py 222-224 from prefix number i on
RECURSIVE strip_prefixes_from(_, _)
strip_prefixes_from(reply, i) ==
    IF i > Len(prefixes_to_remove) THEN reply
    ELSE strip_prefixes_from(strip_prefix(reply, prefixes_to_remove[i]), i + 1)

\* logic.py 214-226
clean_reply(reply_text) == strip_prefixes_from(strip(reply_text), 1)

\* logic.py 186 and 201: the prompt joins considerations and topics
compose_prompt_ok(ana, strat) ==
    /\ strat["considerations"].t = "absent" \/ join_ok(strat["considerations"])
    /\ ana["topics"].t = "absent" \/ join_ok(ana["topics"])

generate_platform_reply(ana, strat, reply_text) ==
    IF ~compose_prompt_ok(ana, strat)
    THEN [exc |-> "TypeError", text |-> <<>>]
    ELSE [exc |-> "none", text |-> clean_reply(reply_text)]

----------------------------------------------------------------------------
(* Inputs of the stage functions *)

ScalarValues == {Absent, Str("s"), Num("7")}

ListValues ==
    {Absent, List(<<>>), List(<<Atom("str", "ai")>>),
     List(<<Atom("str", "ai"), Atom("str", "ml")>>),
     Str("ai"), Num("7"), List(<<Atom("num", "7")>>)}

MkDict(i, s, t, r, ss, c) ==
    Dict([k \in AllKeys |->
        CASE k = "intent" -> i
          [] k = "sentiment" -> s
          [] k = "topics" -> t
          [] k = "response_type" -> r
          [] k = "strategy_summary" -> ss
          [] k = "considerations" -> c])

\* what the model may answer to the analysis prompt
AnalysisDocs ==
    {MkDict(i, s, t, r, Absent, Absent) :
        i \in ScalarValues, s \in ScalarValues, t \in ListValues, r \in ScalarValues}

\* what the model may answer to the strategy prompt
StrategyDocs ==
    {MkDict(Absent, Absent, Absent, Absent, ss, c) :
        ss \in ScalarValues, c \in ListValues}

\* documents that carry keys of both stages
MixedDocs ==
    {MkDict(Str("s"), Absent, t, Absent, Str("s"), c) :
        t \in {Absent, Str("ai")}, c \in {Absent, Str("ai")}}

\* valid JSON that is not an object
NonDictDocs == {NonDict("list"), NonDict("str"), NonDict("num"), NonDict("null")}

JsonDocs == AnalysisDocs \cup StrategyDocs \cup MixedDocs \cup NonDictDocs

\* the ways the model wraps a document; in the first seven the selected text
\* is the document, in the others json.loads raises
ParseableFrames ==
    {"raw", "padded", "json_fence", "fence", "prose_json_fence",
     "unclosed_fence", "fence_then_json_fence"}
BrokenFrames == {"prose_raw", "two_docs", "json_fence_prose", "fence_prose"}
Frames == ParseableFrames \cup BrokenFrames

Frame(f, doc) ==
    CASE f = "raw" -> <<J(doc)>>
      [] f = "padded" -> <<WS, J(doc), WS>>
      [] f = "json_fence" -> FENCE_JSON \o <<WS, J(doc), WS>> \o FENCE
      [] f = "fence" -> FENCE \o <<WS, J(doc), WS>> \o FENCE
      [] f = "prose_json_fence" ->
            <<X, WS>> \o FENCE_JSON \o <<J(doc)>> \o FENCE \o <<WS, X>>
      [] f = "unclosed_fence" -> FENCE_JSON \o <<J(doc)>>
      [] f = "fence_then_json_fence" ->
            FENCE \o <<X>> \o FENCE \o <<WS>> \o FENCE_JSON \o <<J(doc)>> \o FENCE
      [] f = "prose_raw" -> <<X, WS, J(doc)>>
      [] f = "two_docs" -> <<J(doc), WS, J(doc)>>
      [] f = "json_fence_prose" -> FENCE_JSON \o <<X>> \o FENCE \o <<J(doc)>>
      [] f = "fence_prose" -> FENCE \o <<X>> \o FENCE \o <<J(doc)>>

\* texts without any JSON document
ProseTexts ==
    {<<>>, <<WS>>, <<X>>, <<X, WS, X>>, FALLBACK_TEXT, FENCE, FENCE_JSON,
     FENCE \o FENCE, FENCE_JSON \o <<X>> \o FENCE, FENCE \o <<X>>}

\* reply texts: up to MaxParts segments, each a label prefix, a space, a word
\* or a lower-case look-alike of a label
Segments ==
    {prefixes_to_remove[i] : i \in 1..Len(prefixes_to_remove)}
        \cup {<<WS>>, <<X>>, <<W("reply:")>>}

RECURSIVE TextsOf(_)
TextsOf(n) ==
    IF n = 0 THEN {<<>>}
    ELSE LET shorter == TextsOf(n - 1)
         IN  shorter \cup {t \o s : t \in shorter, s \in Segments}

ReplyTexts == TextsOf(MaxParts) \cup {FALLBACK_TEXT}

\* analyses and strategies handed to the later stages
NumericTopics == [ANALYSIS_FALLBACK EXCEPT !["topics"] = List(<<Atom("num", "7")>>)]
StageAnalyses == {ANALYSIS_FALLBACK, NumericTopics}
StageStrategies ==
    {STRATEGY_FALLBACK} \cup
    {[STRATEGY_FALLBACK EXCEPT !["considerations"] = c] : c \in ListValues}

StageInput(stage, frame, doc, text, ana, strat) ==
    [stage |-> stage, frame |-> frame, doc |-> doc, text |-> text,
     analysis |-> ana, strategy |-> strat]

StageInputs ==
    {StageInput("analyze", f, doc, Frame(f, doc), EmptyDict, EmptyDict) :
        f \in Frames, doc \in JsonDocs}
    \cup {StageInput("analyze", "prose", NoJson, t, EmptyDict, EmptyDict) :
        t \in ProseTexts}
    \cup {StageInput("strategy", f, doc, Frame(f, doc), a, EmptyDict) :
        f \in Frames, doc \in JsonDocs, a \in StageAnalyses}
    \cup {StageInput("strategy", "prose", NoJson, t, a, EmptyDict) :
        t \in ProseTexts, a \in StageAnalyses}
    \cup {StageInput("compose", "prose", NoJson, t, ANALYSIS_FALLBACK, STRATEGY_FALLBACK) :
        t \in ReplyTexts}
    \cup {StageInput("compose", "prose", NoJson, FALLBACK_TEXT, a, s) :
        a \in StageAnalyses, s \in StageStrategies}

NotRun == [done |-> FALSE, exc |-> "none", d |-> EmptyDict, text |-> <<>>]
DictOut(r) == [done |-> TRUE, exc |-> r.exc, d |-> r.d, text |-> <<>>]
TextOut(r) == [done |-> TRUE, exc |-> r.exc, d |-> EmptyDict, text |-> r.text]

----------------------------------------------------------------------------
(* Tasks of the event loop *)

\* requests are numbered in their order of arrival
Requests == 1..NumRequests
\* the task that runs lifespan() of main.py
Lifespan == NumRequests + 1
Tasks == Requests \cup {Lifespan}

NoReq == [platform |-> "", post_text |-> 0, include_analysis |-> FALSE]

NoRecord ==
    [present |-> FALSE, reply_text |-> <<>>, platform |-> "", post_text |-> 0,
     created_at |-> FALSE, strategy |-> Absent, has_analysis |-> FALSE,
     analysis |-> EmptyDict]

\* variant: the analysis attached whatever include_analysis says
make_result_always(request, reply_text, strat, ana) ==
    [present |-> TRUE, reply_text |-> reply_text, platform |-> request.platform,
     post_text |-> request.post_text, created_at |-> TRUE,
     strategy |-> strat["strategy_summary"],
     has_analysis |-> TRUE, analysis |-> ana]

\* logic.py 266-280; metadata.generation_time and metadata.model carry no
\* behaviour and are left out
make_result(request, reply_text, strat, ana) ==
    [present |-> TRUE, reply_text |-> reply_text, platform |-> request.platform,
     post_text |-> request.post_text, created_at |-> TRUE,
     strategy |-> strat["strategy_summary"],
     has_analysis |-> request.include_analysis,
     analysis |-> IF request.include_analysis THEN ana ELSE EmptyDict]

\* what the model answers in the pipeline: a fenced analysis, a JSON list
FullAnalysis ==
    MkDict(Str("s"), Str("s"), List(<<Atom("str", "ai")>>), Str("s"), Absent, Absent)
PipelineTexts ==
    {Frame("json_fence", FullAnalysis), Frame("raw", NonDict("list"))}

\* self.llm.invoke(messages) raises, or returns a response with some content
FailedCall == [ok |-> FALSE, text |-> <<>>]
GatewayCalls == {FailedCall} \cup {[ok |-> TRUE, text |-> t] : t \in PipelineTexts}

\* the call can end this way now
CanEnd(call) == gateway_up \/ ~call.ok

\* a task runs only while no other task holds the event loop thread
CanRun(t) == loop = {} \/ loop = {t}

----------------------------------------------------------------------------
(* generate_reply *)

\* the request arrives, generate_reply runs up to self.llm.invoke of the
\* Analyze stage (model.py 46), which does not yield to the event loop
Begin(r, include) ==
    /\ pc[r] = "start" /\ loop = {}
    /\ pc[Lifespan] = "serving"
    /\ IF r = 1 THEN TRUE ELSE pc[r - 1] # "start"
    /\ req' = [req EXCEPT ![r] =
            [platform |-> "twitter", post_text |-> r, include_analysis |-> include]]
    /\ pc' = [pc EXCEPT ![r] = "analyze_call"]
    /\ loop' = {r}
    /\ UNCHANGED <<analysis, strategy, model_text, result, outcome, gw>>
    /\ UNCHANGED db_vars /\ UNCHANGED <<stage_vars, gateway_up>>

\* the Analyze call returns; analyze_post parses, determine_strategy builds
\* its prompt and calls the gateway
AnalyzeReturn(r, call) ==
    /\ pc[r] = "analyze_call" /\ loop = {r}
    /\ CanEnd(call)
    /\ LET text == generate_response(call)
           res == analyze_post(text)
           exc == IF res.exc # "none" THEN res.exc
                  ELSE IF ~strategy_prompt_ok(res.d) THEN "TypeError" ELSE "none"
       IN  /\ gw' = [gw EXCEPT ![r] = Append(@, "analyze")]
           /\ model_text' = [model_text EXCEPT ![r] = IF exc = "none" THEN text ELSE <<>>]
           /\ analysis' = [analysis EXCEPT ![r] = IF exc = "none" THEN res.d ELSE EmptyDict]
           /\ outcome' = [outcome EXCEPT ![r] = IF exc = "none" THEN @ ELSE exc]
           /\ pc' = [pc EXCEPT ![r] = IF exc = "none" THEN "strategy_call" ELSE "done"]
           /\ loop' = IF exc = "none" THEN {r} ELSE {}
    /\ UNCHANGED <<req, strategy, result>>
    /\ UNCHANGED db_vars /\ UNCHANGED <<stage_vars, gateway_up>>

\* the Strategize call returns; determine_strategy parses,
\* generate_platform_reply builds its prompt and calls the gateway
StrategyReturn(r, call) ==
    /\ pc[r] = "strategy_call" /\ loop = {r}
    /\ CanEnd(call)
    /\ LET text == generate_response(call)
           res == determine_strategy(analysis[r], text)
           exc == IF res.exc # "none" THEN res.exc
                  ELSE IF ~compose_prompt_ok(analysis[r], res.d) THEN "TypeError"
                  ELSE "none"
       IN  /\ gw' = [gw EXCEPT ![r] = Append(@, "strategize")]
           /\ model_text' = [model_text EXCEPT ![r] = IF exc = "none" THEN text ELSE <<>>]
           /\ strategy' = [strategy EXCEPT ![r] = IF exc = "none" THEN res.d ELSE EmptyDict]
           /\ analysis' = [analysis EXCEPT ![r] = IF exc = "none" THEN @ ELSE EmptyDict]
           /\ outcome' = [outcome EXCEPT ![r] = IF exc = "none" THEN @ ELSE exc]
           /\ pc' = [pc EXCEPT ![r] = IF exc = "none" THEN "compose_call" ELSE "done"]
           /\ loop' = IF exc = "none" THEN {r} ELSE {}
    /\ UNCHANGED <<req, result>>
    /\ UNCHANGED db_vars /\ UNCHANGED <<stage_vars, gateway_up>>

\* the Compose call returns; the reply is cleaned, the record assembled and
\* handed to Database.store_reply (logic.py 214-283)
ComposeReturn(r, call) ==
    /\ pc[r] = "compose_call" /\ loop = {r}
    /\ CanEnd(call)
    /\ LET text == generate_response(call)
           res == generate_platform_reply(analysis[r], strategy[r], text)
       IN  /\ gw' = [gw EXCEPT ![r] = Append(@, "compose")]
           /\ model_text' = [model_text EXCEPT ![r] = text]
           /\ result' = [result EXCEPT ![r] =
                    make_result(req[r], res.text, strategy[r], analysis[r])]
    /\ pc' = [pc EXCEPT ![r] = "store_call"]
    /\ UNCHANGED <<req, analysis, strategy, outcome, loop>>
    /\ UNCHANGED db_vars /\ UNCHANGED <<stage_vars, gateway_up>>

\* logic.py 285: the record goes back to the caller, the locals are gone
Return(r) ==
    /\ pc[r] = "store_returned" /\ loop = {r}
    /\ outcome' = [outcome EXCEPT ![r] = "returned"]
    /\ pc' = [pc EXCEPT ![r] = "done"]
    /\ loop' = {}
    /\ analysis' = [analysis EXCEPT ![r] = EmptyDict]
    /\ strategy' = [strategy EXCEPT ![r] = EmptyDict]
    /\ model_text' = [model_text EXCEPT ![r] = <<>>]
    /\ result' = [result EXCEPT ![r] = NoRecord]
    /\ UNCHANGED <<req, gw>>
    /\ UNCHANGED db_vars /\ UNCHANGED <<stage_vars, gateway_up>>

----------------------------------------------------------------------------
(* Database *)

\* connect() is over: lifespan() yields to the server, store_reply goes on
AfterConnect(t) ==
    /\ pc' = [pc EXCEPT ![t] = IF t = Lifespan THEN "serving" ELSE "store_check"]
    /\ loop' = IF t = Lifespan THEN {} ELSE {t}

\* main.py 24: await Database.connect()
Startup ==
    /\ pc[Lifespan] = "startup" /\ loop = {}
    /\ pc' = [pc EXCEPT ![Lifespan] = "connect"]
    /\ loop' = {Lifespan}
    /\ UNCHANGED <<req, analysis, strategy, model_text, result, outcome, gw>>
    /\ UNCHANGED db_vars /\ UNCHANGED <<stage_vars, gateway_up>>

\* database.py 20-26: how says whether AsyncIOMotorClient(MONGO_URL) or
\* cls.client[MONGO_DB_NAME] raise; the ping is awaited
Connect(t, how) ==
    /\ pc[t] = "connect" /\ loop = {t}
    /\ IF client # 0 \/ how = "ctor_raises"
       THEN AfterConnect(t) /\ UNCHANGED <<client, db, made, open_clients>>
       ELSE /\ made' = made + 1
            /\ client' = made + 1
            /\ open_clients' = open_clients \cup {made + 1}
            /\ IF how = "getitem_raises"
               THEN AfterConnect(t) /\ UNCHANGED db
               ELSE /\ db' = made + 1
                    /\ pc' = [pc EXCEPT ![t] = "connect_ping"]
                    /\ loop' = {}
    /\ UNCHANGED <<req, analysis, strategy, model_text, result, outcome, gw>>
    /\ UNCHANGED <<replies, store_ret, stores>> /\ UNCHANGED <<stage_vars, gateway_up>>

\* database.py 26-30 and 49-50: the ping completes; create_indexes tests
\* cls.db (the test itself may raise) and awaits the first create_index
PingDone(t, how) ==
    /\ pc[t] = "connect_ping" /\ loop = {}
    /\ IF how = "ok" /\ db # 0
       THEN pc' = [pc EXCEPT ![t] = "connect_idx1"] /\ UNCHANGED loop
       ELSE AfterConnect(t)
    /\ UNCHANGED <<req, analysis, strategy, model_text, result, outcome, gw>>
    /\ UNCHANGED db_vars /\ UNCHANGED <<stage_vars, gateway_up>>

NextIndex(at) ==
    CASE at = "connect_idx1" -> "connect_idx2"
      [] at = "connect_idx2" -> "connect_idx3"
      [] OTHER -> "indexed"

\* database.py 50-56: one create_index completes; the next one reads cls.db
\* again, which raises when close() has run meanwhile
IndexDone(t, how) ==
    /\ pc[t] \in {"connect_idx1", "connect_idx2", "connect_idx3"} /\ loop = {}
    /\ IF how = "ok" /\ db # 0 /\ NextIndex(pc[t]) # "indexed"
       THEN pc' = [pc EXCEPT ![t] = NextIndex(pc[t])] /\ UNCHANGED loop
       ELSE AfterConnect(t)
    /\ UNCHANGED <<req, analysis, strategy, model_text, result, outcome, gw>>
    /\ UNCHANGED db_vars /\ UNCHANGED <<stage_vars, gateway_up>>

\* database.py 38-44 called from main.py 27
Shutdown ==
    /\ pc[Lifespan] = "serving" /\ loop = {}
    /\ pc' = [pc EXCEPT ![Lifespan] = "stopped"]
    /\ client' = 0
    /\ db' = IF client # 0 THEN 0 ELSE db
    /\ open_clients' = open_clients \ {client}
    /\ UNCHANGED <<req, analysis, strategy, model_text, result, outcome, gw, loop>>
    /\ UNCHANGED <<made, replies, store_ret, stores>> /\ UNCHANGED <<stage_vars, gateway_up>>

\* logic.py 283 and database.py 69-70: store_reply is entered
StoreEntry(t) ==
    /\ pc[t] = "store_call" /\ loop = {t}
    /\ pc' = [pc EXCEPT ![t] = IF db = 0 THEN "connect" ELSE "store_stamp"]
    /\ stores' = [stores EXCEPT ![t] = @ + 1]
    /\ UNCHANGED <<req, analysis, strategy, model_text, result, outcome, gw, loop>>
    /\ UNCHANGED <<client, db, made, open_clients, replies, store_ret>> /\ UNCHANGED <<stage_vars, gateway_up>>

\* database.py 72-74
StoreCheck(t) ==
    /\ pc[t] = "store_check" /\ loop = {t}
    /\ pc' = [pc EXCEPT ![t] = IF db = 0 THEN "store_returned" ELSE "store_stamp"]
    /\ store_ret' = [store_ret EXCEPT ![t] = IF db = 0 THEN "None" ELSE @]
    /\ UNCHANGED <<req, analysis, strategy, model_text, result, outcome, gw, loop>>
    /\ UNCHANGED <<client, db, made, open_clients, replies, stores>> /\ UNCHANGED <<stage_vars, gateway_up>>

\* database.py 77-78: datetime.now(datetime.timezone.utc) reads an attribute
\* the datetime class does not have
stamp_raises(record) == ~record.created_at

\* database.py 77-81: the timestamp, then insert_one is awaited
StoreStamp(t) ==
    /\ pc[t] = "store_stamp" /\ loop = {t}
    /\ IF stamp_raises(result[t])
       THEN /\ store_ret' = [store_ret EXCEPT ![t] = "raised"]
            /\ outcome' = [outcome EXCEPT ![t] = "AttributeError"]
            /\ pc' = [pc EXCEPT ![t] = "done"]
            /\ result' = [result EXCEPT ![t] = NoRecord]
            /\ analysis' = [analysis EXCEPT ![t] = EmptyDict]
            /\ strategy' = [strategy EXCEPT ![t] = EmptyDict]
            /\ model_text' = [model_text EXCEPT ![t] = <<>>]
       ELSE /\ pc' = [pc EXCEPT ![t] = "insert"]
            /\ UNCHANGED <<store_ret, outcome, result, analysis, strategy, model_text>>
    /\ loop' = {}
    /\ UNCHANGED <<req, gw>>
    /\ UNCHANGED <<client, db, made, open_clients, replies, stores>> /\ UNCHANGED <<stage_vars, gateway_up>>

\* database.py 81-86: insert_one completes or raises
InsertDone(t, ok) ==
    /\ pc[t] = "insert" /\ loop = {}
    /\ replies' = IF ok THEN replies \cup {result[t]} ELSE replies
    /\ store_ret' = [store_ret EXCEPT ![t] = IF ok THEN "id" ELSE "None"]
    /\ pc' = [pc EXCEPT ![t] = "store_returned"]
    /\ loop' = {t}
    /\ UNCHANGED <<req, analysis, strategy, model_text, result, outcome, gw>>
    /\ UNCHANGED <<client, db, made, open_clients, stores>> /\ UNCHANGED <<stage_vars, gateway_up>>

\* some task calls Database.store_reply(record)
DirectCall(t, record) ==
    /\ pc[t] = "direct_start" /\ loop = {}
    /\ result' = [result EXCEPT ![t] = record]
    /\ pc' = [pc EXCEPT ![t] = "store_call"]
    /\ loop' = {t}
    /\ UNCHANGED <<req, analysis, strategy, model_text, outcome, gw>>
    /\ UNCHANGED db_vars /\ UNCHANGED <<stage_vars, gateway_up>>

DirectRecords ==
    {[NoRecord EXCEPT !.present = TRUE, !.platform = "twitter", !.created_at = c] :
        c \in BOOLEAN}

\* the server runs the shutdown half of lifespan() once no request is in
\* flight
GracefulShutdown ==
    /\ \A r \in Requests : pc[r] \in {"start", "done"}
    /\ Shutdown

ConnectOutcomes == {"ok", "ctor_raises", "getitem_raises"}
AwaitOutcomes == {"ok", "raises"}

DatabaseNext ==
    \/ Startup
    \/ \E t \in Tasks, how \in ConnectOutcomes : Connect(t, how)
    \/ \E t \in Tasks, how \in AwaitOutcomes : PingDone(t, how)
    \/ \E t \in Tasks, how \in AwaitOutcomes : IndexDone(t, how)
    \/ \E t \in Requests : StoreEntry(t)
    \/ \E t \in Requests : StoreCheck(t)
    \/ \E t \in Requests : StoreStamp(t)
    \/ \E t \in Requests, ok \in BOOLEAN : InsertDone(t, ok)
    \/ \E t \in Requests : Return(t)

TasksIdle(first) ==
    /\ pc = [t \in Tasks |-> IF t = Lifespan THEN "startup" ELSE first]
    /\ req = [t \in Tasks |-> NoReq]
    /\ analysis = [t \in Tasks |-> EmptyDict]
    /\ strategy = [t \in Tasks |-> EmptyDict]
    /\ model_text = [t \in Tasks |-> <<>>]
    /\ result = [t \in Tasks |-> NoRecord]
    /\ outcome = [t \in Tasks |-> "pending"]
    /\ gw = [t \in Tasks |-> <<>>]
    /\ loop = {}
    /\ client = 0 /\ db = 0 /\ made = 0 /\ open_clients = {}
    /\ replies = {}
    /\ store_ret = [t \in Tasks |-> "pending"]
    /\ stores = [t \in Tasks |-> 0]

StagesIdle == stage_in = StageInput("none", "prose", NoJson, <<>>, EmptyDict, EmptyDict)
                /\ stage_out = NotRun

\* the server: lifespan startup, concurrent requests, shutdown
Init == TasksIdle("start") /\ StagesIdle /\ gateway_up \in BOOLEAN

Next ==
    \/ \E r \in Requests, include \in BOOLEAN : Begin(r, include)
    \/ \E r \in Requests, call \in GatewayCalls : AnalyzeReturn(r, call)
    \/ \E r \in Requests, call \in GatewayCalls : StrategyReturn(r, call)
    \/ \E r \in Requests, call \in GatewayCalls : ComposeReturn(r, call)
    \/ GracefulShutdown
    \/ DatabaseNext

Spec == Init /\ [][Next]_vars

\* Database.store_reply called with any record, under any interleaving with
\* connect() and close()
InitDb == TasksIdle("direct_start") /\ StagesIdle /\ gateway_up = TRUE

NextDb ==
    \/ \E t \in Requests, record \in DirectRecords : DirectCall(t, record)
    \/ Shutdown
    \/ DatabaseNext

SpecDb == InitDb /\ [][NextDb]_vars

----------------------------------------------------------------------------
(* The stage functions applied to one input each *)

StagesInit ==
    /\ stage_in \in StageInputs
    /\ stage_out = NotRun
    /\ TasksIdle("start") /\ gateway_up = TRUE

RunAnalyze ==
    /\ stage_in.stage = "analyze" /\ ~stage_out.done
    /\ stage_out' = DictOut(analyze_post(stage_in.text))
    /\ UNCHANGED stage_in /\ UNCHANGED task_vars /\ UNCHANGED db_vars

RunStrategy ==
    /\ stage_in.stage = "strategy" /\ ~stage_out.done
    /\ stage_out' = DictOut(determine_strategy(stage_in.analysis, stage_in.text))
    /\ UNCHANGED stage_in /\ UNCHANGED task_vars /\ UNCHANGED db_vars

RunCompose ==
    /\ stage_in.stage = "compose" /\ ~stage_out.done
    /\ stage_out' = TextOut(generate_platform_reply(
                        stage_in.analysis, stage_in.strategy, stage_in.text))
    /\ UNCHANGED stage_in /\ UNCHANGED task_vars /\ UNCHANGED db_vars

StagesNext == RunAnalyze \/ RunStrategy \/ RunCompose

SpecStages == StagesInit /\ [][StagesNext]_vars

----------------------------------------------------------------------------
(* Properties of the stage functions, checked under SpecStages *)

Ran(stage) == stage_out.done /\ stage_in.stage = stage

\* the text holds no JSON document at all
NoJsonContent(text) == \A i \in 1..Len(text) : text[i].j.t = "none"

\* the selected text is one JSON object, which lacks some of the keys
ParsedDict == stage_in.frame \in ParseableFrames /\ stage_in.doc.t = "dict"
Lacks(keys) == \E k \in keys : stage_in.doc.d[k] = Absent

AllStrings(leaf) ==
    leaf.t = "list" /\ \A i \in 1..Len(leaf.items) : leaf.items[i].t = "str"

General == List(<<Atom("str", "general")>>)
DefaultSummary == Str("Respond naturally to the post.")
DefaultConsiderations ==
    List(<<Atom("str", "Keep it authentic"), Atom("str", "Address the main points")>>)

C5_TopicsNonEmpty ==
    (Ran("analyze") /\ stage_out.exc = "none") =>
        /\ stage_out.d["topics"].t = "list"
        /\ Len(stage_out.d["topics"].items) >= 1

BeginsWithLabel(reply) ==
    \E i \in 1..Len(prefixes_to_remove) : startswith(reply, prefixes_to_remove[i])

\* the prefix strip of logic.py 222-224 applied once more
StripAgain(reply) == strip_prefixes_from(reply, 1)

\* C6: the reply generate_platform_reply returns begins with none of the five
\* label prefixes, and stripping the prefixes from it again changes nothing.
C6_NoLabelLeft ==
    (Ran("compose") /\ stage_out.exc = "none") =>
        /\ ~BeginsWithLabel(stage_out.text)
        /\ StripAgain(stage_out.text) = stage_out.text

\* what a required analysis key holds after the fill and the topics coercion
ExpectedAnalysisValue(k, default) ==
    LET parsed == stage_in.doc.d[k]
    IN  IF parsed = Absent THEN default ELSE parsed

Wrapped(leaf) == IF leaf.t = "list" THEN leaf ELSE List(<<Atom(leaf.t, leaf.s)>>)

CutLabel(reply, i) ==
    strip(SubSeq(reply, Len(prefixes_to_remove[i]) + 1, Len(reply)))

\* C10 as stated: the reply is the trimmed text, or the trimmed text with
\* exactly one leading label prefix removed and the remainder trimmed.
C10_AtMostOneLabel ==
    (Ran("compose") /\ stage_out.exc = "none") =>
        LET trimmed == strip(stage_in.text)
        IN  \/ stage_out.text = trimmed
            \/ \E i \in 1..Len(prefixes_to_remove) :
                    /\ startswith(trimmed, prefixes_to_remove[i])
                    /\ stage_out.text = CutLabel(trimmed, i)

\* the texts reached from reply by cutting leading labels in increasing list
\* order, each with the number of the last label cut (last: the one before)
RECURSIVE LabelChains(_, _)
LabelChains(reply, last) ==
    {[text |-> reply, last |-> last]} \cup
    UNION {LabelChains(CutLabel(reply, i), i) :
            i \in {n \in (last + 1)..Len(prefixes_to_remove) :
                        startswith(reply, prefixes_to_remove[n])}}

\* C10 amended: the five prefixes are tested once each in list order, so at
\* most one occurrence of each is removed: the reply is the trimmed text with
\* zero or more leading label prefixes removed in increasing list order (the
\* remainder trimmed after each), and a label prefix that follows a removed
\* one is left in place only when it is the same prefix or one earlier in the
\* list.
C10_OneOfEachInListOrder ==
    (Ran("compose") /\ stage_out.exc = "none") =>
        \E c \in LabelChains(strip(stage_in.text), 0) :
            /\ c.text = stage_out.text
            /\ \A n \in (c.last + 1)..Len(prefixes_to_remove) :
                    ~startswith(c.text, prefixes_to_remove[n])

\* "Reply: Here's my reply: x" has lost both labels
C10_Witness ==
    /\ Ran("compose")
    /\ stage_in.text = prefixes_to_remove[1] \o prefixes_to_remove[2] \o <<X>>
    /\ stage_out.text = <<X>>

----------------------------------------------------------------------------
(* Properties of the server, checked under Spec and SpecDb *)

FallbackSentence == <<W("I couldn't generate a proper response at this time.")>>

AfterGatewayCall ==
    {"strategy_call", "compose_call", "store_call", "connect", "connect_ping",
     "connect_idx1", "connect_idx2", "connect_idx3", "store_check",
     "store_stamp", "insert", "store_returned"}

\* C1 as stated: whatever the model answers, generate_reply ends by returning
\* a record; no request ends with an exception.
C1_AlwaysReturns ==
    \A r \in Requests : outcome[r] \in {"pending", "returned"}

\* C2: a failing model call never propagates: generate_response returns the
\* fallback sentence, and when every call fails no request ends with an
\* exception and the record generate_reply returns has that sentence as its
\* reply_text.
C2_GatewayFallback ==
    ~gateway_up =>
        \A r \in Requests :
            /\ outcome[r] \in {"pending", "returned"}
            /\ pc[r] \in AfterGatewayCall => model_text[r] = FallbackSentence
            /\ pc[r] = "store_returned" =>
                    result[r].present /\ result[r].reply_text = FallbackSentence

\* with the gateway down a request is about to return its record
C2_Witness ==
    /\ ~gateway_up
    /\ \E r \in Requests :
            /\ pc[r] = "store_returned"
            /\ gw[r] = <<"analyze", "strategize", "compose">>
            /\ result[r].reply_text = FallbackSentence

\* C4 as stated: Database.store_reply never raises, whatever the record and
\* the connection state.
C4_StoreNeverRaises ==
    \A t \in Requests : store_ret[t] # "raised" /\ outcome[t] # "AttributeError"

\* C7: the record generate_reply returns and stores carries the analysis
\* exactly when include_analysis is true, and then it is the analysis of the
\* Analyze stage of the same request.
C7_AnalysisIffRequested ==
    /\ \A r \in Requests :
            result[r].present =>
                /\ result[r].post_text = r
                /\ result[r].has_analysis = req[r].include_analysis
                /\ result[r].has_analysis => result[r].analysis = analysis[r]
                /\ ~result[r].has_analysis => result[r].analysis = EmptyDict
    /\ \A doc \in replies :
            /\ doc.post_text \in Requests
            /\ doc.has_analysis = req[doc.post_text].include_analysis
            /\ result[doc.post_text].present => doc = result[doc.post_text]

\* two requests in flight, one record with its own analysis, one without
C7_Witness ==
    \E r, t \in Requests :
        /\ r # t
        /\ pc[r] = "insert" /\ pc[t] = "store_returned"
        /\ req[r].include_analysis /\ ~req[t].include_analysis
        /\ result[r].has_analysis /\ result[r].analysis["intent"] = Str("s")
        /\ analysis[t]["intent"] = Str("unknown")
        /\ ~result[t].has_analysis
        /\ result[t] \in replies

InGatewayCall(r) == pc[r] \in {"analyze_call", "strategy_call", "compose_call"}
InFlight(t) == pc[t] \notin {"start", "done"}

\* C8 as stated: while one request waits for its model call, every other
\* request in flight can take its next step.
C8_CallSuspendsOnlyCaller ==
    \A r, t \in Requests :
        (r # t /\ InGatewayCall(r) /\ InFlight(t)) => CanRun(t)

\* logic.py 249-260: the stages generate_reply calls, in the order it calls them
PipelineOrder == <<"analyze", "strategize", "compose">>

IsPrefix(s, t) == Len(s) <= Len(t) /\ s = SubSeq(t, 1, Len(s))

AfterAssembly ==
    {"store_call", "connect", "connect_ping", "connect_idx1", "connect_idx2",
     "connect_idx3", "store_check", "store_stamp", "insert", "store_returned"}

\* the gateway calls of a request are made in pipeline order, none twice, and
\* store_reply is entered at most once, with the assembled record; a request
\* that returns has made the three calls and the store_reply call
StagesInOrderNoRetry ==
    \A r \in Requests :
        /\ IsPrefix(gw[r], PipelineOrder)
        /\ stores[r] <= 1
        /\ (stores[r] = 1 /\ pc[r] # "done") =>
                /\ gw[r] = PipelineOrder
                /\ result[r].present
                /\ result[r].strategy = strategy[r]["strategy_summary"]
        /\ pc[r] \in AfterAssembly \ {"store_call"} => stores[r] = 1
        /\ outcome[r] = "returned" => gw[r] = PipelineOrder /\ stores[r] = 1

\* C11 as stated: within one request Analyze, Strategize and Compose run in
\* this order, each exactly once with exactly one gateway call, no stage is
\* retried, and store_reply is called exactly once, after the record is
\* assembled and before generate_reply ends.
C11_EachStageOnceThenStore ==
    /\ StagesInOrderNoRetry
    /\ \A r \in Requests :
            pc[r] = "done" => gw[r] = PipelineOrder /\ stores[r] = 1

\* every constructed client that was not closed is the one Database.client
\* holds: connect constructs one only when Database.client is not set
OneClientAtATime ==
    /\ open_clients = IF client = 0 THEN {} ELSE {client}
    /\ db \in {0, client}

\* C12 as stated: in every state a task can observe, Database.client and
\* Database.db are both set or both None, and at most one client is open.
C12_ClientAndDbPaired ==
    /\ (client = 0) <=> (db = 0)
    /\ Cardinality(open_clients) <= 1

====
